---- MODULE Spec2Model ----
(***************************************************************************)
(* Model of src/interview_assistant.py, the resume-aware interview          *)
(* assistant.  The file is a Streamlit script: every user interaction      *)
(* re-executes it from top to bottom.  One execution ("run") is modelled   *)
(* as a sequence of steps ordered by pc; between runs the user acts on the *)
(* widgets the last run offered.  st.session_state and the widget values   *)
(* survive from run to run, everything else is rebuilt by each run.        *)
(*                                                                         *)
(* Text is a sequence of tokens: "s" is a blank, "n" a newline, every      *)
(* other token a run of non-whitespace characters.                         *)
(***************************************************************************)
EXTENDS Naturals, Sequences, FiniteSets

VARIABLES
    installed,            \* optional libraries importlib finds (lines 25-32)
    sr_has_microphone,    \* hasattr(sr, "Microphone") (line 152)
    runtime_env,          \* os.getenv("STREAMLIT_RUNTIME_ENV") (line 150)
    key_source,           \* where an OPENAI_API_KEY can be found (lines 48, 50)
    session_resume,       \* st.session_state["resume_text"] (lines 162, 166)
    uploaded_resume,      \* value of the file_uploader widget (line 158)
    user_input,           \* value of the text_input widget (lines 176, 185)
    offered,              \* controls the current run has rendered so far
    clicked,              \* button whose click triggered the current run
    pc,                   \* position of the current run in the script
    api_key,              \* openai.api_key (lines 48, 50)
    resume_text,          \* script variable resume_text (lines 161, 166)
    question,             \* script variable question (line 199)
    answer,               \* script variable answer (lines 179, 191, 203)
    notices,              \* st.warning / st.error notices emitted by the run
    status_placeholder,   \* line 170
    question_placeholder, \* line 171
    answer_placeholder,   \* line 172
    gen_calls,            \* invocations of get_chatgpt_answer in the run
    prompts,              \* prompts sent to openai.ChatCompletion.create in the run
    synth_calls,          \* gTTS(text) calls in the run (line 117)
    listen_calls,         \* listen_and_transcribe invocations in the run
    response,             \* response.choices[0].message.content (line 105)
    waited,               \* seconds recognizer.listen has waited for a phrase
    phrase_started,       \* recognizer.listen has detected the start of a phrase
    phrase_elapsed,       \* seconds the phrase has lasted
    last_good             \* history: last non-empty text extract_resume_text returned

env == <<installed, sr_has_microphone, runtime_env, key_source>>
widgets == <<uploaded_resume, user_input>>
regions == <<status_placeholder, question_placeholder, answer_placeholder>>
capture == <<waited, phrase_started, phrase_elapsed>>
counters == <<gen_calls, prompts, synth_calls, listen_calls, response>>
vars == <<installed, sr_has_microphone, runtime_env, key_source, session_resume,
          uploaded_resume, user_input, offered, clicked, pc, api_key, resume_text,
          question, answer, notices, status_placeholder, question_placeholder,
          answer_placeholder, gen_calls, prompts, synth_calls, listen_calls,
          response, waited, phrase_started, phrase_elapsed, last_good>>

----------------------------------------------------------------------------
(* Bounds and program constants *)

\* seconds of silence the model follows before it stops counting
MaxWait == 16

\* phrase_time_limit=15 passed to recognizer.listen
PHRASE_TIME_LIMIT == 15

----------------------------------------------------------------------------
(* Python values *)

None == [some |-> FALSE, val |-> <<>>]
Some(t) == [some |-> TRUE, val |-> t]

\* truth value of an Optional[str]: None and "" are falsy
Truthy(x) == x.some /\ Len(x.val) > 0

IsSpace(c) == c \in {"s", "n"}

RECURSIVE LStrip(_)
LStrip(t) == IF t # <<>> /\ IsSpace(Head(t)) THEN LStrip(Tail(t)) ELSE t

RECURSIVE RStrip(_)
RStrip(t) ==
    IF t # <<>> /\ IsSpace(t[Len(t)]) THEN RStrip(SubSeq(t, 1, Len(t) - 1)) ELSE t

\* str.strip()
Strip(t) == RStrip(LStrip(t))

----------------------------------------------------------------------------
(* textwrap.dedent *)

RECURSIVE SplitLines(_)
SplitLines(t) ==
    IF \A i \in 1..Len(t) : t[i] # "n"
    THEN <<t>>
    ELSE LET k == CHOOSE i \in 1..Len(t) :
                      t[i] = "n" /\ \A j \in 1..(i - 1) : t[j] # "n"
         IN  <<SubSeq(t, 1, k - 1)>> \o SplitLines(SubSeq(t, k + 1, Len(t)))

RECURSIVE JoinLines(_)
JoinLines(ls) ==
    IF Len(ls) = 1 THEN ls[1] ELSE ls[1] \o <<"n">> \o JoinLines(Tail(ls))

WhitespaceOnly(line) == \A i \in 1..Len(line) : line[i] = "s"

RECURSIVE IndentOf(_)
IndentOf(line) ==
    IF line # <<>> /\ Head(line) = "s" THEN 1 + IndentOf(Tail(line)) ELSE 0

\* whitespace-only lines are emptied, then the indentation common to the
\* remaining lines is removed from each of them
dedent(t) ==
    LET ls     == SplitLines(t)
        norm   == [i \in 1..Len(ls) |->
                       IF WhitespaceOnly(ls[i]) THEN <<>> ELSE ls[i]]
        ind    == {IndentOf(norm[i]) : i \in {j \in 1..Len(ls) : norm[j] # <<>>}}
        margin == IF ind = {} THEN 0
                  ELSE CHOOSE m \in ind : \A o \in ind : m <= o
    IN  JoinLines([i \in 1..Len(ls) |->
                       IF norm[i] = <<>> THEN <<>>
                       ELSE SubSeq(norm[i], margin + 1, Len(norm[i]))])

\* the eight blanks that indent the body of the f-string of lines 90-97
Indent == <<"s", "s", "s", "s", "s", "s", "s", "s">>

\* SYSTEM_PROMPT after its own dedent: a newline, the instruction lines at
\* column 0, a newline
SYSTEM_PROMPT == <<"n", "Consider...", "n", "...answers.", "n">>

full_prompt_swapped(q, r) ==
    dedent(<<"n">> \o Indent \o SYSTEM_PROMPT \o <<"n", "n">>
           \o Indent \o <<"Interviewer", "s", "question:", "s">> \o q \o <<"n", "n">>
           \o Indent \o <<"Resume", "s", "summary:", "n">>
           \o Indent \o r \o <<"n">>
           \o Indent)

full_prompt(q, r) ==
    dedent(<<"n">> \o Indent \o SYSTEM_PROMPT \o <<"n", "n">>
           \o Indent \o <<"Resume", "s", "summary:", "n">>
           \o Indent \o r \o <<"n", "n">>
           \o Indent \o <<"Interviewer", "s", "question:", "s">> \o q \o <<"n">>
           \o Indent)

----------------------------------------------------------------------------
(* Inputs the environment can supply *)

AllLibs == {"openai", "speech_recognition", "gtts", "pypdf"}

R1 == <<"r1">>
R2 == <<"s", "r2", "n", "s", "n", "s", "r2">>

\* an uploaded file: a text file has content, a PDF has pages (a page whose
\* extract_text() gives None is None) and may be unreadable by PdfReader
NoFile == [type |-> "none", readable |-> FALSE, content |-> <<>>, pages |-> <<>>]
TextFile(t) == [type |-> "text/plain", readable |-> TRUE, content |-> t, pages |-> <<>>]
PdfFile(ok, ps) == [type |-> "application/pdf", readable |-> ok, content |-> <<>>, pages |-> ps]

Files == {TextFile(<<>>), TextFile(R1), TextFile(R2),
          PdfFile(TRUE, <<Some(<<"r3">>), None, Some(<<"r3">>)>>),
          PdfFile(FALSE, <<>>)}

\* values the user can leave in the text input (a single line)
UserInputs == {<<>>, <<"s">>, <<"s", "q", "s", "q", "s">>}

\* what openai.ChatCompletion.create does: raises, or returns a message content
Raises == [raises |-> TRUE, content |-> <<>>]
Returns(t) == [raises |-> FALSE, content |-> t]
Contents == {<<"a">>, <<"s", "a", "s", "a", "n">>, <<"s", "n">>}

\* the service rejects the placeholder key
CompletionOutcomes(key) ==
    IF key = "YOUR_API_KEY_HERE" THEN {Raises}
    ELSE {Raises} \cup {Returns(t) : t \in Contents}

\* what recognizer.recognize_google does: raises, or returns a transcript
RecognitionOutcomes == {Raises, Returns(<<>>), Returns(<<"q", "s", "q">>)}

----------------------------------------------------------------------------
(* Display regions *)

Region(kind, text) == [kind |-> kind, text |-> text]
EmptyRegion == Region("empty", <<>>)

----------------------------------------------------------------------------
(* Core functions *)

PdfReaderLoaded == "pypdf" \in installed

RECURSIVE JoinPages(_)
JoinPages(ps) ==
    IF ps = <<>> THEN <<>>
    ELSE LET t == IF Head(ps).some THEN Head(ps).val ELSE <<>>
         IN  IF Len(ps) = 1 THEN t ELSE t \o <<"n">> \o JoinPages(Tail(ps))

extract_resume_text(uploaded_file) ==
    IF uploaded_file.type = "application/pdf"
    THEN IF ~PdfReaderLoaded
         THEN [result |-> None, notices |-> {"pdf_unavailable"}]
         ELSE IF ~uploaded_file.readable
         THEN [result |-> None, notices |-> {"resume_read_error"}]
         ELSE [result |-> Some(JoinPages(uploaded_file.pages)), notices |-> {}]
    ELSE [result |-> Some(uploaded_file.content), notices |-> {}]

ResumeMissingIfNone(r) == ~r.some

\* "if not resume_text"
ResumeMissing(r) == ~Truthy(r)

get_chatgpt_answer(q, r, outcome) ==
    IF ResumeMissing(r)
    THEN [answer |-> None, notices |-> {"missing_resume"}, prompts |-> <<>>,
          response |-> None]
    ELSE IF "openai" \notin installed
    THEN [answer |-> None, notices |-> {"openai_unavailable"}, prompts |-> <<>>,
          response |-> None]
    ELSE IF outcome.raises
    THEN [answer |-> None, notices |-> {"api_error"},
          prompts |-> <<full_prompt(q, r.val)>>, response |-> None]
    ELSE [answer |-> Some(Strip(outcome.content)), notices |-> {},
          prompts |-> <<full_prompt(q, r.val)>>,
          response |-> Some(outcome.content)]

gTTSLoadedAssumed == TRUE

\* "if not gTTS" is false
gTTSLoaded == "gtts" \in installed

speak_text(text, raises) ==
    IF ~gTTSLoaded
    THEN [synth |-> 0, notices |-> {"playback_unavailable"}]
    ELSE IF raises
    THEN [synth |-> 1, notices |-> {"playback_error"}]
    ELSE [synth |-> 1, notices |-> {}]

IS_CLOUD_flag_only == runtime_env = "cloud"

IS_CLOUD ==
    \/ runtime_env = "cloud"
    \/ "speech_recognition" \notin installed
    \/ ~sr_has_microphone

QuestionNotNone(q) == q.some

\* "if question"
QuestionCaptured(q) == Truthy(q)

----------------------------------------------------------------------------
(* Initial state: a fresh session, the first run about to start *)

Init ==
    /\ installed \in SUBSET AllLibs
    /\ sr_has_microphone \in
           IF "speech_recognition" \in installed THEN BOOLEAN ELSE {FALSE}
    /\ runtime_env \in {"cloud", "unset"}
    /\ key_source \in {"secrets", "environ", "absent"}
    /\ session_resume = None
    /\ uploaded_resume = NoFile
    /\ user_input = <<>>
    /\ offered = {}
    /\ clicked = "none"
    /\ pc = "deps"
    /\ api_key = "unset"
    /\ resume_text = None
    /\ question = None
    /\ answer = None
    /\ notices = {}
    /\ status_placeholder = EmptyRegion
    /\ question_placeholder = EmptyRegion
    /\ answer_placeholder = EmptyRegion
    /\ gen_calls = 0
    /\ prompts = <<>>
    /\ synth_calls = 0
    /\ listen_calls = 0
    /\ response = None
    /\ waited = 0
    /\ phrase_started = FALSE
    /\ phrase_elapsed = 0
    /\ last_good = None

----------------------------------------------------------------------------
(* The user: each interaction with a widget of the finished run starts a run *)

RunEnded == pc \in {"done", "aborted"}

StartRun(button) ==
    /\ pc' = "deps"
    /\ clicked' = button
    /\ offered' = {}
    /\ api_key' = "unset"
    /\ resume_text' = None
    /\ question' = None
    /\ answer' = None
    /\ notices' = {}
    /\ status_placeholder' = EmptyRegion
    /\ question_placeholder' = EmptyRegion
    /\ answer_placeholder' = EmptyRegion
    /\ gen_calls' = 0
    /\ prompts' = <<>>
    /\ synth_calls' = 0
    /\ listen_calls' = 0
    /\ response' = None
    /\ UNCHANGED <<env, capture>>

UploadFile ==
    /\ RunEnded
    /\ "upload" \in offered
    /\ \E f \in Files :
           /\ f # uploaded_resume
           /\ uploaded_resume' = f
    /\ StartRun("none")
    /\ UNCHANGED <<session_resume, user_input, last_good>>

RemoveFile ==
    /\ RunEnded
    /\ "upload" \in offered
    /\ uploaded_resume # NoFile
    /\ uploaded_resume' = NoFile
    /\ StartRun("none")
    /\ UNCHANGED <<session_resume, user_input, last_good>>

TypeQuestion ==
    /\ RunEnded
    /\ "text_input" \in offered
    /\ \E t \in UserInputs :
           /\ t # user_input
           /\ user_input' = t
    /\ StartRun("none")
    /\ UNCHANGED <<session_resume, uploaded_resume, last_good>>

ClickGenerate ==
    /\ RunEnded
    /\ "generate" \in offered
    /\ StartRun("generate")
    /\ UNCHANGED <<session_resume, widgets, last_good>>

ClickQuickListen ==
    /\ RunEnded
    /\ "listen" \in offered
    /\ StartRun("listen")
    /\ UNCHANGED <<session_resume, widgets, last_good>>

\* the page is reloaded: session state and widget values are gone
NewSession ==
    /\ RunEnded
    /\ session_resume' = None
    /\ uploaded_resume' = NoFile
    /\ user_input' = <<>>
    /\ last_good' = None
    /\ StartRun("none")

----------------------------------------------------------------------------
(* The script, top to bottom *)

\* lines 20-35
LoadDependencies ==
    /\ pc = "deps"
    /\ notices' = IF installed # AllLibs THEN notices \cup {"libs_warning"}
                  ELSE notices
    /\ pc' = "config"
    /\ UNCHANGED <<env, session_resume, widgets, offered, clicked, api_key,
                   resume_text, question, answer, regions, counters, capture,
                   last_good>>

\* lines 47-50: with openai = None the assignment in the try block raises
\* AttributeError, which is caught, and the assignment in the except block
\* raises it again, uncaught
Configure ==
    /\ pc = "config"
    /\ IF "openai" \in installed
       THEN /\ api_key' = CASE key_source = "secrets" -> "from_secrets"
                            [] key_source = "environ" -> "from_environ"
                            [] OTHER -> "YOUR_API_KEY_HERE"
            /\ pc' = "upload"
       ELSE /\ api_key' = api_key
            /\ pc' = "aborted"
    /\ UNCHANGED <<env, session_resume, widgets, offered, clicked, resume_text,
                   question, answer, notices, regions, counters, capture,
                   last_good>>

\* lines 157-166
HandleUpload ==
    /\ pc = "upload"
    /\ offered' = offered \cup {"upload"}
    /\ IF uploaded_resume # NoFile
       THEN LET e == extract_resume_text(uploaded_resume)
            IN  /\ resume_text' = e.result
                /\ session_resume' = e.result
                /\ notices' = notices \cup e.notices
                /\ last_good' = IF Truthy(e.result) THEN e.result ELSE last_good
       ELSE /\ resume_text' = session_resume
            /\ UNCHANGED <<session_resume, notices, last_good>>
    /\ pc' = "ui"
    /\ UNCHANGED <<env, widgets, clicked, api_key, question, answer, regions,
                   counters, capture>>

\* lines 168-187 and the conditions of lines 177, 189 and 198
RenderUI ==
    /\ pc = "ui"
    /\ status_placeholder' = EmptyRegion
    /\ question_placeholder' = EmptyRegion
    /\ answer_placeholder' = EmptyRegion
    /\ IF IS_CLOUD
       THEN /\ notices' = notices \cup {"cloud_warning"}
            /\ offered' = offered \cup {"text_input", "generate"}
            /\ pc' = IF clicked = "generate" /\ Strip(user_input) # <<>>
                     THEN "cloud_generate" ELSE "done"
       ELSE /\ notices' = notices
            /\ offered' = offered \cup {"text_input", "listen"}
                   \cup (IF Strip(user_input) # <<>> THEN {"generate"} ELSE {})
            /\ pc' = IF Strip(user_input) # <<>> /\ clicked = "generate"
                     THEN "text_generate"
                     ELSE IF clicked = "listen" THEN "listen" ELSE "done"
    /\ UNCHANGED <<env, session_resume, widgets, clicked, api_key, resume_text,
                   question, answer, counters, capture, last_good>>

\* lines 178-181
CloudGenerate ==
    /\ pc = "cloud_generate"
    /\ \E o \in CompletionOutcomes(api_key) :
           LET g == get_chatgpt_answer(user_input, resume_text, o)
           IN  /\ answer' = g.answer
               /\ notices' = notices \cup g.notices
               /\ prompts' = prompts \o g.prompts
               /\ response' = g.response
               /\ answer_placeholder' =
                      IF Truthy(g.answer) THEN Region("success", g.answer.val)
                      ELSE answer_placeholder
    /\ gen_calls' = gen_calls + 1
    /\ pc' = "done"
    /\ UNCHANGED <<env, session_resume, widgets, offered, clicked, api_key,
                   resume_text, question, status_placeholder,
                   question_placeholder, synth_calls, listen_calls, capture,
                   last_good>>

\* lines 190-194
TextGenerate ==
    /\ pc = "text_generate"
    /\ \E o \in CompletionOutcomes(api_key) :
           LET g == get_chatgpt_answer(user_input, resume_text, o)
           IN  /\ answer' = g.answer
               /\ notices' = notices \cup g.notices
               /\ prompts' = prompts \o g.prompts
               /\ response' = g.response
               /\ IF Truthy(g.answer)
                  THEN /\ question_placeholder' =
                              Region("markdown", <<"Prompt:", "s">> \o user_input)
                       /\ answer_placeholder' =
                              Region("success", <<"AI", "s", "Answer:", "s">>
                                                \o g.answer.val)
                       /\ pc' = "speak"
                  ELSE /\ UNCHANGED <<question_placeholder, answer_placeholder>>
                       /\ pc' = "done"
    /\ gen_calls' = gen_calls + 1
    /\ UNCHANGED <<env, session_resume, widgets, offered, clicked, api_key,
                   resume_text, question, status_placeholder, synth_calls,
                   listen_calls, capture, last_good>>

\* lines 199 and 133-140: sr.Microphone() raises when no input device can be
\* opened; otherwise recognizer.listen starts to wait for a phrase
Listen ==
    /\ pc = "listen"
    /\ listen_calls' = listen_calls + 1
    /\ IF "speech_recognition" \notin installed
       THEN /\ notices' = notices \cup {"speech_unavailable"}
            /\ pc' = "voice_result"
       ELSE \E device_opens \in BOOLEAN :
                IF device_opens
                THEN /\ notices' = notices
                     /\ pc' = "capturing"
                ELSE /\ notices' = notices \cup {"speech_failed"}
                     /\ pc' = "voice_result"
    /\ question' = None
    /\ waited' = 0
    /\ phrase_started' = FALSE
    /\ phrase_elapsed' = 0
    /\ UNCHANGED <<env, session_resume, widgets, offered, clicked, api_key,
                   resume_text, answer, regions, gen_calls, prompts, synth_calls,
                   response, last_good>>

\* line 140, recognizer.listen(source, phrase_time_limit=15): no timeout is
\* given, so while nobody speaks the call goes on waiting
WaitForPhrase ==
    /\ pc = "capturing"
    /\ ~phrase_started
    /\ waited < MaxWait
    /\ waited' = waited + 1
    /\ UNCHANGED <<env, session_resume, widgets, offered, clicked, pc, api_key,
                   resume_text, question, answer, notices, regions, counters,
                   phrase_started, phrase_elapsed, last_good>>

\* the user starts to speak
PhraseStarts ==
    /\ pc = "capturing"
    /\ ~phrase_started
    /\ phrase_started' = TRUE
    /\ waited' = 0
    /\ UNCHANGED <<env, session_resume, widgets, offered, clicked, pc, api_key,
                   resume_text, question, answer, notices, regions, counters,
                   phrase_elapsed, last_good>>

\* the phrase goes on, for at most phrase_time_limit seconds
PhraseContinues ==
    /\ pc = "capturing"
    /\ phrase_started
    /\ phrase_elapsed < PHRASE_TIME_LIMIT
    /\ phrase_elapsed' = phrase_elapsed + 1
    /\ UNCHANGED <<env, session_resume, widgets, offered, clicked, pc, api_key,
                   resume_text, question, answer, notices, regions, counters,
                   waited, phrase_started, last_good>>

\* the speaker pauses or the phrase limit is reached: listen returns (line 141)
PhraseEnds ==
    /\ pc = "capturing"
    /\ phrase_started
    /\ pc' = "transcribing"
    /\ phrase_started' = FALSE
    /\ phrase_elapsed' = 0
    /\ UNCHANGED <<env, session_resume, widgets, offered, clicked, api_key,
                   resume_text, question, answer, notices, regions, counters,
                   waited, last_good>>

\* lines 142-145
Transcribe ==
    /\ pc = "transcribing"
    /\ \E o \in RecognitionOutcomes :
           IF o.raises
           THEN /\ question' = None
                /\ notices' = notices \cup {"speech_failed"}
           ELSE /\ question' = Some(o.content)
                /\ notices' = notices
    /\ pc' = "voice_result"
    /\ UNCHANGED <<env, session_resume, widgets, offered, clicked, api_key,
                   resume_text, answer, regions, counters, capture, last_good>>

\* lines 200-202 and 208-209
VoiceResult ==
    /\ pc = "voice_result"
    /\ IF QuestionCaptured(question)
       THEN /\ question_placeholder' =
                   Region("markdown", <<"Shortcut", "s", "captured:", "s">>
                                      \o question.val)
            /\ answer_placeholder' = Region("markdown", <<"_Generating answer..._">>)
            /\ pc' = "voice_request"
            /\ UNCHANGED <<status_placeholder, notices>>
       ELSE /\ status_placeholder' =
                   Region("error", <<"Could not understand speech.">>)
            /\ notices' = notices \cup {"could_not_understand"}
            /\ pc' = "done"
            /\ UNCHANGED <<question_placeholder, answer_placeholder>>
    /\ UNCHANGED <<env, session_resume, widgets, offered, clicked, api_key,
                   resume_text, question, answer, counters, capture, last_good>>

\* lines 203-205
VoiceRequest ==
    /\ pc = "voice_request"
    /\ \E o \in CompletionOutcomes(api_key) :
           LET g == get_chatgpt_answer(question.val, resume_text, o)
           IN  /\ answer' = g.answer
               /\ notices' = notices \cup g.notices
               /\ prompts' = prompts \o g.prompts
               /\ response' = g.response
               /\ IF Truthy(g.answer)
                  THEN /\ answer_placeholder' =
                              Region("success", <<"AI", "s", "Answer:", "s">>
                                                \o g.answer.val)
                       /\ pc' = "speak"
                  ELSE /\ UNCHANGED answer_placeholder
                       /\ pc' = "done"
    /\ gen_calls' = gen_calls + 1
    /\ UNCHANGED <<env, session_resume, widgets, offered, clicked, api_key,
                   resume_text, question, status_placeholder,
                   question_placeholder, synth_calls, listen_calls, capture,
                   last_good>>

\* lines 195-196 and 206-207; gTTS, save or the player may raise (line 127)
Speak ==
    /\ pc = "speak"
    /\ \E raises \in BOOLEAN :
           LET s == speak_text(answer.val, raises)
           IN  /\ synth_calls' = synth_calls + s.synth
               /\ notices' = notices \cup s.notices
    /\ status_placeholder' =
           Region("success", <<"Answer displayed and spoken aloud.">>)
    /\ pc' = "done"
    /\ UNCHANGED <<env, session_resume, widgets, offered, clicked, api_key,
                   resume_text, question, answer, question_placeholder,
                   answer_placeholder, gen_calls, prompts, listen_calls, response,
                   capture, last_good>>

----------------------------------------------------------------------------

Next ==
    \/ UploadFile
    \/ RemoveFile
    \/ TypeQuestion
    \/ ClickGenerate
    \/ ClickQuickListen
    \/ NewSession
    \/ LoadDependencies
    \/ Configure
    \/ HandleUpload
    \/ RenderUI
    \/ CloudGenerate
    \/ TextGenerate
    \/ Listen
    \/ WaitForPhrase
    \/ PhraseStarts
    \/ PhraseContinues
    \/ PhraseEnds
    \/ Transcribe
    \/ VoiceResult
    \/ VoiceRequest
    \/ Speak

Spec == Init /\ [][Next]_vars

----------------------------------------------------------------------------
(* Helpers of the properties *)

RECURSIVE FindFrom(_, _, _)
\* least position >= i at which sub occurs in p, 0 when there is none
FindFrom(p, sub, i) ==
    IF i + Len(sub) - 1 > Len(p) THEN 0
    ELSE IF SubSeq(p, i, i + Len(sub) - 1) = sub THEN i
    ELSE FindFrom(p, sub, i + 1)

\* p contains a, then b, then c, without overlap
ContainsInOrder(p, a, b, c) ==
    LET i == FindFrom(p, a, 1)
        j == IF i = 0 THEN 0 ELSE FindFrom(p, b, i + Len(a))
        k == IF j = 0 THEN 0 ELSE FindFrom(p, c, j + Len(b))
    IN  i # 0 /\ j # 0 /\ k # 0

\* t with every whitespace-only line emptied
BlankLinesEmptied(t) ==
    LET ls == SplitLines(t)
    IN  JoinLines([i \in 1..Len(ls) |->
                       IF WhitespaceOnly(ls[i]) THEN <<>> ELSE ls[i]])

\* the run answered a non-blank typed question or a click on Quick Listen
QuestionSubmitted ==
    \/ clicked = "generate" /\ Strip(user_input) # <<>>
    \/ clicked = "listen"

AnswerRendered == answer_placeholder.kind = "success"

\* the run took the Generate Answer branch of the text-only mode
TextOnlyGenerateDone ==
    /\ pc = "done"
    /\ IS_CLOUD
    /\ clicked = "generate"
    /\ Strip(user_input) # <<>>
    /\ Truthy(resume_text)

----------------------------------------------------------------------------
(* C1 *)

\* C1: whenever get_chatgpt_answer has been invoked in a run whose resume
\* context is None or empty, the missing-resume warning has been emitted, no
\* answer was returned and no completion request was sent in that run.
C1_MissingResumeBlocksCompletion ==
    (gen_calls > 0 /\ ~Truthy(resume_text)) =>
        /\ "missing_resume" \in notices
        /\ answer = None
        /\ prompts = <<>>
        /\ response = None

\* a voice question transcribed while the stored resume is the empty text
C1_Witness ==
    /\ pc = "done"
    /\ clicked = "listen"
    /\ gen_calls = 1
    /\ resume_text = Some(<<>>)

----------------------------------------------------------------------------
(* C2 *)

\* C2: for every combination of installed libraries no run aborts: startup
\* always gets past the configuration to the upload and question sections.
C2_StartupNeverAborts == pc # "aborted"

----------------------------------------------------------------------------
(* C3 *)

\* C3: when the completion request of a run has failed, the finished run
\* shows in the answer region what it showed before the request was handled
\* (the empty placeholder of line 172), and the error notice.
C3_FailureLeavesAnswerRegion ==
    (pc = "done" /\ "api_error" \in notices) =>
        answer_placeholder = EmptyRegion

----------------------------------------------------------------------------
(* C4 *)

\* C4 as claimed: a finished run offers Quick Listen iff the speech library
\* with its Microphone is there, Generate Answer only with the completion
\* client and a credential, the resume upload only with the PDF library.
C4_OfferedIffCapability ==
    pc = "done" =>
        /\ "listen" \in offered <=>
               ("speech_recognition" \in installed /\ sr_has_microphone)
        /\ "generate" \in offered =>
               ("openai" \in installed /\ key_source # "absent")
        /\ "upload" \in offered => "pypdf" \in installed

\* C4 amended: a run that ends normally offers Quick Listen iff the runtime
\* flag is not "cloud" and the speech library with its Microphone is there;
\* it always offers the resume upload and the text input; it offers Generate
\* Answer in the text-only mode always and otherwise iff the typed question
\* is not blank.  A run that aborts offers nothing.
C4_OfferedActions ==
    /\ pc = "aborted" => offered = {}
    /\ pc = "done" =>
        /\ "listen" \in offered <=>
               /\ runtime_env # "cloud"
               /\ "speech_recognition" \in installed
               /\ sr_has_microphone
        /\ "upload" \in offered
        /\ "text_input" \in offered
        /\ "generate" \in offered <=>
               \/ "listen" \notin offered
               \/ Strip(user_input) # <<>>

\* the voice and generate actions offered without PDF library or credential
C4_Witness ==
    /\ pc = "done"
    /\ {"listen", "generate", "upload"} \subseteq offered
    /\ "pypdf" \notin installed
    /\ key_source = "absent"

----------------------------------------------------------------------------
(* C5 *)

\* C5: while recognizer.listen is capturing, no more than the 15 seconds of
\* the limit have passed since it began to wait or since the phrase began.
C5_CaptureEndsWithinLimit ==
    pc = "capturing" => waited + phrase_elapsed <= PHRASE_TIME_LIMIT

----------------------------------------------------------------------------
(* C6 *)

\* C6: a Quick Listen run whose transcription failed or came back empty ends
\* with the could-not-understand notice, after one capture attempt, with no
\* completion request and no synthesis, with the question and answer regions
\* empty as they were; and no step of the voice branch up to that point
\* changes the stored resume.
C6_TranscriptionFailure ==
    /\ [](  (pc = "done" /\ clicked = "listen" /\ ~Truthy(question)) =>
              /\ "could_not_understand" \in notices
              /\ status_placeholder.kind = "error"
              /\ listen_calls = 1
              /\ gen_calls = 0
              /\ prompts = <<>>
              /\ synth_calls = 0
              /\ question_placeholder = EmptyRegion
              /\ answer_placeholder = EmptyRegion )
    /\ [][ (pc \in {"listen", "capturing", "transcribing", "voice_result"}) =>
              (session_resume' = session_resume) ]_vars

\* the recognizer returned the empty text while a resume was loaded
C6_Witness ==
    /\ pc = "done"
    /\ clicked = "listen"
    /\ question = Some(<<>>)
    /\ Truthy(session_resume)

----------------------------------------------------------------------------
(* C7 *)

\* C7: a finished run that was given a question and rendered no answer has
\* emitted at least one warning or error notice.
C7_NoSilentFailure ==
    (pc = "done" /\ QuestionSubmitted /\ ~AnswerRendered) => notices # {}

----------------------------------------------------------------------------
(* C8 *)

\* C8: once a non-empty resume text has been extracted in the session, the
\* resume_text every later run uses (from line 166 on) is the last such text.
C8_ResumePersists ==
    (pc \notin {"deps", "config", "upload", "aborted"} /\ last_good.some) =>
        resume_text = last_good

----------------------------------------------------------------------------
(* C9 *)

\* C9: gTTS is called only with the library loaded and an answer rendered;
\* speak_text is reached only with an answer rendered; a run in which
\* playback was unavailable or raised has the warning, has ended normally
\* and still shows the answer it rendered.
C9_SpeechIsOptional ==
    /\ synth_calls > 0 => ("gtts" \in installed /\ AnswerRendered)
    /\ pc = "speak" => (AnswerRendered /\ synth_calls = 0)
    /\ status_placeholder.kind = "success" =>
        /\ pc = "done"
        /\ AnswerRendered
        /\ answer_placeholder.text = <<"AI", "s", "Answer:", "s">> \o answer.val
        /\ "gtts" \notin installed =>
               (synth_calls = 0 /\ "playback_unavailable" \in notices)
        /\ "gtts" \in installed => synth_calls = 1
    /\ (notices \cap {"playback_unavailable", "playback_error"} # {}) =>
           (pc = "done" /\ status_placeholder.kind = "success")

\* synthesis raised after the answer was rendered
C9_Witness ==
    /\ pc = "done"
    /\ "playback_error" \in notices
    /\ synth_calls = 1
    /\ AnswerRendered

----------------------------------------------------------------------------
(* C10 *)

\* C10 as claimed: the text-only Generate Answer run sends one prompt that
\* holds the system instruction, the resume text and the question in this
\* order, shows the response text when there is one, and synthesizes nothing.
C10_TextOnlyAsClaimed ==
    TextOnlyGenerateDone =>
        /\ Len(prompts) = 1
        /\ ContainsInOrder(prompts[1], SYSTEM_PROMPT, resume_text.val, user_input)
        /\ response.some => answer_placeholder = Region("success", response.val)
        /\ synth_calls = 0

\* C10 amended: the prompt holds the system instruction, the resume text with
\* its whitespace-only lines emptied, and the question, in this order; the
\* answer shown is the response text stripped of surrounding whitespace, and
\* nothing is shown when that is empty; nothing is synthesized.
C10_TextOnly ==
    TextOnlyGenerateDone =>
        /\ Len(prompts) = 1
        /\ ContainsInOrder(prompts[1], SYSTEM_PROMPT,
                           BlankLinesEmptied(resume_text.val), user_input)
        /\ response.some =>
               answer_placeholder =
                   IF Strip(response.val) # <<>>
                   THEN Region("success", Strip(response.val))
                   ELSE EmptyRegion
        /\ ~response.some => answer_placeholder = EmptyRegion
        /\ synth_calls = 0

\* a response with surrounding whitespace, a resume with a blank line, and
\* the synthesis library installed
C10_Witness ==
    /\ TextOnlyGenerateDone
    /\ resume_text = Some(R2)
    /\ response = Some(<<"s", "a", "s", "a", "n">>)
    /\ "gtts" \in installed

====
